---------------------------- MODULE Spec2Model ----------------------------
(***************************************************************************)
(* Model of the omni-tars response decoder                                 *)
(* (multimodal/omni-tars/core/src/utils/parser.ts), of the ModelSelector   *)
(* component with the server handler and the ApiService calls behind it,   *)
(* and of ApiService.sendStreamingQuery.                                   *)
(*                                                                         *)
(* A JavaScript string is a sequence of one-character strings.  A          *)
(* JavaScript value is a record tagged by its type in field t.  The JSON   *)
(* text produced by JSON.stringify is represented by the JSON document it  *)
(* denotes (a tagged value without undefined and NaN).                     *)
(***************************************************************************)
EXTENDS Integers, Sequences, FiniteSets, TLC

VARIABLES
  \* the response decoder: the text decoded, the calls made, the console
  content, calls, console,
  \* the model selector: the server's providers, the sessionId prop, the React
  \* state of the component, the state its handlers captured at the last
  \* render, the updateSessionModel requests in flight, the requests issued
  providers, sessionId, availableModels, currentModel, isOpen, isLoading,
  closure, pending, issued,
  \* the streaming query: the response body, the state of its reader, the
  \* number of bytes read, the bytes the TextDecoder holds, the buffer, the
  \* calls of onEvent
  stream, reader, readTo, textDecoder, buffer, events,
  \* the server's updateSessionModel handler: the session metadata in storage,
  \* the requests handled and the responses sent to each
  storage, requests

parserVars == <<content, calls, console>>

selectorVars ==
  <<providers, sessionId, availableModels, currentModel, isOpen, isLoading,
    closure, pending, issued>>

streamVars == <<stream, reader, readTo, textDecoder, buffer, events>>

serverVars == <<storage, requests>>

vars == <<parserVars, selectorVars, streamVars, serverVars>>

\* no request reaches the updateSessionModel handler
NoServer ==
  /\ storage = [configured |-> FALSE, sessions |-> <<>>]
  /\ requests = <<>>

\* no ModelSelector is mounted
NoSelector ==
  /\ providers = <<>>
  /\ sessionId = ""
  /\ availableModels = [t |-> "null"]
  /\ currentModel = [t |-> "null"]
  /\ isOpen = FALSE
  /\ isLoading = FALSE
  /\ closure = [t |-> "null"]
  /\ pending = <<>>
  /\ issued = <<>>

\* no streaming query is running
NoStream ==
  /\ stream = [text |-> <<>>, bytes |-> <<>>]
  /\ reader = "none"
  /\ readTo = 0
  /\ textDecoder = <<>>
  /\ buffer = <<>>
  /\ events = <<>>

\* no decoder is called
NoDecoder ==
  /\ content = <<>>
  /\ calls = <<>>

(***************************************************************************)
(* Bounds of the model.                                                    *)
(***************************************************************************)
MaxTagPieces == 4
MaxCodePieces == 3
MaxDescriptors == 2
MaxArgs == 2

(***************************************************************************)
(* Literals of the source.                                                 *)
(***************************************************************************)
THINK_OPEN == <<"<","t","h","i","n","k","_","n","e","v","e","r","_","u","s","e","d","_","5","1","b","c","e","0","c","7","8","5","c","a","2","f","6","8","0","8","1","b","f","a","7","d","9","1","9","7","3","9","3","4",">">>
THINK_CLOSE == <<"<","/","t","h","i","n","k","_","n","e","v","e","r","_","u","s","e","d","_","5","1","b","c","e","0","c","7","8","5","c","a","2","f","6","8","0","8","1","b","f","a","7","d","9","1","9","7","3","9","3","4",">">>
ANSWER_OPEN == <<"<","a","n","s","w","e","r",">">>
ANSWER_CLOSE == <<"<","/","a","n","s","w","e","r",">">>
CODE_ENV_OPEN == <<"<","c","o","d","e","_","e","n","v",">">>
CODE_ENV_CLOSE == <<"<","/","c","o","d","e","_","e","n","v",">">>
MCP_ENV_OPEN == <<"<","m","c","p","_","e","n","v",">">>
MCP_ENV_CLOSE == <<"<","/","m","c","p","_","e","n","v",">">>
COMPUTER_ENV_OPEN == <<"<","c","o","m","p","u","t","e","r","_","e","n","v",">">>
COMPUTER_ENV_CLOSE == <<"<","/","c","o","m","p","u","t","e","r","_","e","n","v",">">>
FUNCTION_MARK == <<"<","f","u","n","c","t","i","o","n","=">>
PARAMETER_MARK == <<"<","p","a","r","a","m","e","t","e","r","=">>
FUNCTION_CALL_BEGIN == <<"<","|","F","u","n","c","t","i","o","n","C","a","l","l","B","e","g","i","n","|",">","[">>
FUNCTION_CALL_END == <<"]","<","|","F","u","n","c","t","i","o","n","C","a","l","l","E","n","d","|",">">>
ACTION_MARK == <<"A","c","t","i","o","n",":">>
POINT_OPEN == <<"p","o","i","n","t","=","'","<","p","o","i","n","t",">">>
POINT_CLOSE == <<"<","/","p","o","i","n","t",">","'">>
PROTO_KEY == <<"_","_","p","r","o","t","o","_","_">>
POINT_KEY == <<"p","o","i","n","t">>
NAME_KEY == <<"n","a","m","e">>
PARAMETERS_KEY == <<"p","a","r","a","m","e","t","e","r","s">>

(***************************************************************************)
(* Character classes of ECMAScript.                                        *)
(***************************************************************************)
\* WhiteSpace and LineTerminator code points that occur in the model
WhiteSpace == {" ", "\t", "\n", "\r"}
Digits == {"0","1","2","3","4","5","6","7","8","9"}
\* the regular expression class \w
WordChars ==
  Digits \cup {"_"} \cup
  {"a","b","c","d","e","f","g","h","i","j","k","l","m",
   "n","o","p","q","r","s","t","u","v","w","x","y","z"} \cup
  {"A","B","C","D","E","F","G","H","I","J","K","L","M",
   "N","O","P","Q","R","S","T","U","V","W","X","Y","Z"}
Quotes == {"'", "\""}

(***************************************************************************)
(* String primitives.                                                      *)
(***************************************************************************)
\* pat occurs in s at index i
StartsWithAt(s, pat, i) ==
  /\ i >= 1
  /\ i + Len(pat) - 1 <= Len(s)
  /\ \A k \in 1..Len(pat) : s[i + k - 1] = pat[k]

\* String.prototype.indexOf(pat, from), 1-based; 0 when pat does not occur
IndexOf(s, pat, from) ==
  LET found == {i \in from..(Len(s) - Len(pat) + 1) : StartsWithAt(s, pat, i)}
  IN  IF found = {} THEN 0 ELSE CHOOSE i \in found : \A j \in found : i <= j

\* first index >= from whose character is not in the class cls; Len(s)+1 when none
SkipClass(s, cls, from) ==
  IF from > Len(s) THEN Len(s) + 1
  ELSE CHOOSE i \in from..(Len(s) + 1) :
         /\ i = Len(s) + 1 \/ s[i] \notin cls
         /\ \A j \in from..(i - 1) : s[j] \in cls

\* first index >= from whose character is in the class cls; 0 when none
IndexOfClass(s, cls, from) ==
  IF from > Len(s) THEN 0
  ELSE LET first == CHOOSE i \in from..(Len(s) + 1) :
                      /\ i = Len(s) + 1 \/ s[i] \in cls
                      /\ \A j \in from..(i - 1) : s[j] \notin cls
       IN  IF first = Len(s) + 1 THEN 0 ELSE first

\* last index <= to whose character is not in the class cls; 0 when none
SkipClassBack(s, cls, to) ==
  IF to < 1 THEN 0
  ELSE CHOOSE i \in 0..to :
         /\ i = 0 \/ s[i] \notin cls
         /\ \A j \in (i + 1)..to : s[j] \in cls

\* String.prototype.trim
Trim(s) == SubSeq(s, SkipClass(s, WhiteSpace, 1), SkipClassBack(s, WhiteSpace, Len(s)))

\* String.prototype.split(sep) for a one-character separator
RECURSIVE SplitFrom(_, _, _)
SplitFrom(s, sep, from) ==
  LET j == IndexOfClass(s, {sep}, from)
  IN  IF j = 0 THEN <<SubSeq(s, from, Len(s))>>
      ELSE <<SubSeq(s, from, j - 1)>> \o SplitFrom(s, sep, j + 1)

Split(s, sep) == SplitFrom(s, sep, 1)

(***************************************************************************)
(* JavaScript values.                                                      *)
(***************************************************************************)
Undefined == [t |-> "undefined"]
Null == [t |-> "null"]
NaN == [t |-> "NaN"]
Bool(b) == [t |-> "boolean", b |-> b]
\* a finite number: sign, integer part and fraction digits (no trailing zero)
Num(neg, int, frac) == [t |-> "number", neg |-> neg, int |-> int, frac |-> frac]
Str(s) == [t |-> "string", s |-> s]
Obj(props) == [t |-> "object", props |-> props]
Arr(items) == [t |-> "array", items |-> items]

NoMatch == [matched |-> FALSE]

(***************************************************************************)
(* Own properties of an ordinary object, in OrdinaryOwnPropertyKeys order: *)
(* array-index keys ascending, then the other keys in creation order.      *)
(***************************************************************************)
DigitVal(c) ==
  CASE c = "0" -> 0 [] c = "1" -> 1 [] c = "2" -> 2 [] c = "3" -> 3 [] c = "4" -> 4
    [] c = "5" -> 5 [] c = "6" -> 6 [] c = "7" -> 7 [] c = "8" -> 8 [] c = "9" -> 9

\* a < b for digit strings of the same length
RECURSIVE LexLess(_, _)
LexLess(a, b) ==
  IF a = <<>> THEN FALSE
  ELSE IF Head(a) # Head(b) THEN DigitVal(Head(a)) < DigitVal(Head(b))
  ELSE LexLess(Tail(a), Tail(b))

\* a < b for canonical numeric strings
IndexLess(a, b) ==
  \/ Len(a) < Len(b)
  \/ Len(a) = Len(b) /\ LexLess(a, b)

\* the largest array index, 2^32 - 2
MAX_ARRAY_INDEX == <<"4","2","9","4","9","6","7","2","9","4">>

\* k is a canonical numeric string naming an array index
IsArrayIndex(k) ==
  /\ Len(k) >= 1
  /\ \A i \in 1..Len(k) : k[i] \in Digits
  /\ (k[1] = "0" => Len(k) = 1)
  /\ ~IndexLess(MAX_ARRAY_INDEX, k)

\* CreateDataProperty(O, k, v) on the property list of an ordinary object
OrdinaryDefine(props, k, v) ==
  IF \E i \in 1..Len(props) : props[i].k = k
  THEN [i \in 1..Len(props) |-> IF props[i].k = k THEN [k |-> k, v |-> v] ELSE props[i]]
  ELSE IF IsArrayIndex(k)
  THEN LET p == Cardinality({i \in 1..Len(props) :
                               IsArrayIndex(props[i].k) /\ IndexLess(props[i].k, k)})
       IN  SubSeq(props, 1, p) \o <<[k |-> k, v |-> v]>> \o SubSeq(props, p + 1, Len(props))
  ELSE Append(props, [k |-> k, v |-> v])

\* obj[k] = v for a string v on an object literal: the key __proto__ reaches the
\* setter of Object.prototype, which ignores a value that is not an object
PropertyAssign(props, k, v) ==
  IF k = PROTO_KEY THEN props ELSE OrdinaryDefine(props, k, v)

HasOwn(props, k) == \E i \in 1..Len(props) : props[i].k = k

\* the value of own property k
GetOwn(props, k) == props[CHOOSE i \in 1..Len(props) : props[i].k = k].v

(***************************************************************************)
(* JSON.stringify, to the document the text denotes: NaN becomes null, a   *)
(* property whose value is undefined is left out, an undefined array item  *)
(* becomes null, -0 becomes 0.                                             *)
(***************************************************************************)
RECURSIVE JSONStringify(_)
RECURSIVE StringifyProps(_)
RECURSIVE StringifyItems(_)
JSONStringify(v) ==
  CASE v.t = "undefined" -> Undefined
    [] v.t = "NaN" -> Null
    [] v.t = "number" ->
         IF v.int = <<"0">> /\ v.frac = <<>> THEN Num(FALSE, v.int, v.frac) ELSE v
    [] v.t = "object" -> Obj(StringifyProps(v.props))
    [] v.t = "array" -> Arr(StringifyItems(v.items))
    [] OTHER -> v

StringifyProps(props) ==
  IF props = <<>> THEN <<>>
  ELSE LET h == Head(props)
       IN  IF h.v.t = "undefined" THEN StringifyProps(Tail(props))
           ELSE <<[k |-> h.k, v |-> JSONStringify(h.v)]>> \o StringifyProps(Tail(props))

StringifyItems(items) ==
  IF items = <<>> THEN <<>>
  ELSE <<IF Head(items).t = "undefined" THEN Null ELSE JSONStringify(Head(items))>>
       \o StringifyItems(Tail(items))

(***************************************************************************)
(* Tool calls.                                                             *)
(***************************************************************************)
\* the wall-clock readings (ms) of Date.now() during the decode calls
Clock == {1000, 1001}

\* generateToolCallId: the timestamp and the random suffix of the identifier
generateToolCallId(now, rnd) == [now |-> now, rnd |-> rnd]

\* the suffixes Math.random().toString(36).substring(2, 11) yields in the model
RandomSuffixes == {<<"k","3","f","9","x","0","q","2","m">>, <<"7","h","a","1","z","p","4","c","w">>}

ToolCallIds == {generateToolCallId(now, rnd) : now \in Clock, rnd \in RandomSuffixes}

\* tools.push({ id, type: 'function', function: { name, arguments } })
ToolCall(id, name, arguments) ==
  [id |-> id, type |-> "function",
   function |-> [name |-> name, arguments |-> JSONStringify(arguments)]]

\* the pushed calls, the i-th carrying the i-th generated identifier
WithIds(raw, ids) ==
  [i \in 1..Len(raw) |-> ToolCall(ids[i], raw[i].name, raw[i].arguments)]

\* a return value that always carries the tools array; the decoders do not
\* build it
ParsedContentWithTools(think, answer, tools) ==
  [think |-> think, answer |-> answer, hasTools |-> TRUE, tools |-> tools]

\* return { think, answer, ...(tools.length > 0 && { tools }) }
ParsedContent(think, answer, tools) ==
  IF Len(tools) > 0
  THEN [think |-> think, answer |-> answer, hasTools |-> TRUE, tools |-> tools]
  ELSE [think |-> think, answer |-> answer, hasTools |-> FALSE]

Return(value) == [kind |-> "return", value |-> value]
Throw(error) == [kind |-> "throw", error |-> error]

(***************************************************************************)
(* Tag extraction.                                                         *)
(***************************************************************************)
\* the greedy reading /OPEN([\s\S]*)CLOSE/, which runs to the last CLOSE; the
\* decoder does not use it
MatchRegionGreedy(s, open, close) ==
  LET i == IndexOf(s, open, 1)
  IN  IF i = 0 \/ IndexOf(s, close, i + Len(open)) = 0 THEN NoMatch
      ELSE LET j == CHOOSE k \in (i + Len(open))..Len(s) :
                      /\ StartsWithAt(s, close, k)
                      /\ \A m \in (k + 1)..Len(s) : ~StartsWithAt(s, close, m)
           IN  [matched |-> TRUE, g1 |-> SubSeq(s, i + Len(open), j - 1)]

\* s.match(/OPEN([\s\S]*?)CLOSE/): the leftmost OPEN that a CLOSE follows is the
\* first OPEN, and the lazy group ends at the first CLOSE after it
MatchRegion(s, open, close) ==
  LET i == IndexOf(s, open, 1)
  IN  IF i = 0 THEN NoMatch
      ELSE LET j == IndexOf(s, close, i + Len(open))
           IN  IF j = 0 THEN NoMatch
               ELSE [matched |-> TRUE, g1 |-> SubSeq(s, i + Len(open), j - 1)]

\* an extractor that hands back its argument when no think block is found; the
\* source returns the empty string
ExtractThinkOrSelf(c) ==
  LET thinkMatch == MatchRegion(c, THINK_OPEN, THINK_CLOSE)
  IN  IF thinkMatch.matched THEN Trim(thinkMatch.g1) ELSE c

extractThinkContent(c) ==
  LET thinkMatch == MatchRegion(c, THINK_OPEN, THINK_CLOSE)
  IN  IF thinkMatch.matched THEN Trim(thinkMatch.g1) ELSE <<>>

extractAnswerContent(c) ==
  LET answerMatch == MatchRegion(c, ANSWER_OPEN, ANSWER_CLOSE)
  IN  IF answerMatch.matched THEN Trim(answerMatch.g1) ELSE <<>>

(***************************************************************************)
(* parseCodeContent.                                                       *)
(***************************************************************************)
\* the reading /MARK([^>]*)>/, which accepts an empty name; the decoder does not
\* use it
MatchMarkerAnyName(s, mark, from) ==
  LET i == IndexOf(s, mark, from)
  IN  IF i = 0 THEN NoMatch
      ELSE LET j == IndexOfClass(s, {">"}, i + Len(mark))
           IN  IF j = 0 THEN NoMatch
               ELSE [matched |-> TRUE, g1 |-> SubSeq(s, i + Len(mark), j - 1),
                     start |-> i, end |-> j]

\* s.match(/MARK([^>]+)>/) searched from index from: [^>]+ is greedy and must be
\* followed by '>', so the group is the whole run up to the first '>'
RECURSIVE MatchMarker(_, _, _)
MatchMarker(s, mark, from) ==
  LET i == IndexOf(s, mark, from)
  IN  IF i = 0 THEN NoMatch
      ELSE LET j == IndexOfClass(s, {">"}, i + Len(mark))
           IN  IF j = 0 THEN NoMatch
               ELSE IF j = i + Len(mark) THEN MatchMarker(s, mark, i + 1)
               ELSE [matched |-> TRUE, g1 |-> SubSeq(s, i + Len(mark), j - 1),
                     start |-> i, end |-> j]

\* s.matchAll(/<parameter=([^>]+)>([^<]*)/g): the matches from index from on,
\* each search resuming where the last match ended
RECURSIVE ParameterMatches(_, _)
ParameterMatches(s, from) ==
  LET m == MatchMarker(s, PARAMETER_MARK, from)
  IN  IF ~m.matched THEN <<>>
      ELSE LET e == IndexOfClass(s, {"<"}, m.end + 1)
               stop == IF e = 0 THEN Len(s) + 1 ELSE e
           IN  <<[g1 |-> m.g1, g2 |-> SubSeq(s, m.end + 1, stop - 1)]>>
               \o ParameterMatches(s, stop)

\* for (const match of parameterMatches) parameters[match[1]] = match[2]
RECURSIVE CollectParameters(_, _)
CollectParameters(matches, parameters) ==
  IF matches = <<>> THEN parameters
  ELSE CollectParameters(Tail(matches),
         PropertyAssign(parameters, Head(matches).g1, Str(Head(matches).g2)))

\* the (name, arguments) pairs parseCodeContent pushes, before identifiers
CodeTools(c) ==
  LET codeEnvMatch == MatchRegion(c, CODE_ENV_OPEN, CODE_ENV_CLOSE)
  IN  IF ~codeEnvMatch.matched THEN <<>>
      ELSE LET codeEnvContent == codeEnvMatch.g1
               functionMatch == MatchMarker(codeEnvContent, FUNCTION_MARK, 1)
           IN  IF ~functionMatch.matched THEN <<>>
               ELSE <<[name |-> Str(functionMatch.g1),
                       arguments |->
                         Obj(CollectParameters(ParameterMatches(codeEnvContent, 1), <<>>))]>>

(***************************************************************************)
(* JSON.parse, for texts without string escapes and number exponents.      *)
(* A result is [ok |-> TRUE, v |-> value, next |-> index after the value]  *)
(* or ParseFail, which stands for the SyntaxError.                         *)
(***************************************************************************)
ParseFail == [ok |-> FALSE]
LIT_NULL == <<"n","u","l","l">>
LIT_TRUE == <<"t","r","u","e">>
LIT_FALSE == <<"f","a","l","s","e">>

\* digits without leading zeros, at least one digit
RECURSIVE StripLeadingZeros(_)
StripLeadingZeros(d) ==
  IF Len(d) > 1 /\ Head(d) = "0" THEN StripLeadingZeros(Tail(d)) ELSE d

\* fraction digits without trailing zeros
StripTrailingZeros(d) == SubSeq(d, 1, SkipClassBack(d, {"0"}, Len(d)))

\* a JSON string body from index i (after the opening quote) to the closing quote;
\* a control character inside a string is a SyntaxError
ParseString(s, i) ==
  LET j == IndexOfClass(s, {"\"", "\\", "\t", "\n", "\r"}, i)
  IN  IF j = 0 \/ s[j] # "\"" THEN ParseFail
      ELSE [ok |-> TRUE, v |-> Str(SubSeq(s, i, j - 1)), next |-> j + 1]

\* a JSON number at index i: -? (0 | [1-9][0-9]*) (. [0-9]+)?
ParseNumber(s, i) ==
  LET neg == s[i] = "-"
      a == IF neg THEN i + 1 ELSE i
      b == IF a <= Len(s) /\ s[a] = "0" THEN a + 1 ELSE SkipClass(s, Digits, a)
      hasFrac == b <= Len(s) /\ s[b] = "."
      c == IF hasFrac THEN SkipClass(s, Digits, b + 1) ELSE b
  IN  IF b = a \/ (hasFrac /\ c = b + 1) THEN ParseFail
      ELSE [ok |-> TRUE,
            v |-> Num(neg, SubSeq(s, a, b - 1),
                      IF hasFrac THEN StripTrailingZeros(SubSeq(s, b + 1, c - 1)) ELSE <<>>),
            next |-> c]

RECURSIVE ParseValue(_, _)
RECURSIVE ParseElements(_, _, _)
RECURSIVE ParseMembers(_, _, _)

\* the value that starts at index i, the first index that is not white space
ValueAt(s, i) ==
  IF i > Len(s) THEN ParseFail
  ELSE IF s[i] = "[" THEN ParseElements(s, SkipClass(s, WhiteSpace, i + 1), <<>>)
  ELSE IF s[i] = "{" THEN ParseMembers(s, SkipClass(s, WhiteSpace, i + 1), <<>>)
  ELSE IF s[i] = "\"" THEN ParseString(s, i + 1)
  ELSE IF s[i] \in Digits \cup {"-"} THEN ParseNumber(s, i)
  ELSE IF StartsWithAt(s, LIT_NULL, i) THEN [ok |-> TRUE, v |-> Null, next |-> i + 4]
  ELSE IF StartsWithAt(s, LIT_TRUE, i) THEN [ok |-> TRUE, v |-> Bool(TRUE), next |-> i + 4]
  ELSE IF StartsWithAt(s, LIT_FALSE, i) THEN [ok |-> TRUE, v |-> Bool(FALSE), next |-> i + 5]
  ELSE ParseFail

ParseValue(s, from) == ValueAt(s, SkipClass(s, WhiteSpace, from))

\* after the elements items, at index j (not white space): ',' or ']'
ElementEnd(s, j, items) ==
  IF j > Len(s) THEN ParseFail
  ELSE IF s[j] = "," THEN ParseElements(s, j + 1, items)
  ELSE IF s[j] = "]" THEN [ok |-> TRUE, v |-> Arr(items), next |-> j + 1]
  ELSE ParseFail

\* the element e parsed after the elements items
ElementParsed(s, e, items) ==
  IF ~e.ok THEN ParseFail
  ELSE ElementEnd(s, SkipClass(s, WhiteSpace, e.next), Append(items, e.v))

\* the elements of an array from index from (after '[' or ','), up to ']'
ParseElements(s, from, items) ==
  IF items = <<>> /\ from <= Len(s) /\ s[from] = "]"
  THEN [ok |-> TRUE, v |-> Arr(<<>>), next |-> from + 1]
  ELSE ElementParsed(s, ParseValue(s, from), items)

\* after the members props, at index j (not white space): ',' or '}'
MemberEnd(s, j, props) ==
  IF j > Len(s) THEN ParseFail
  ELSE IF s[j] = "," THEN ParseMembers(s, SkipClass(s, WhiteSpace, j + 1), props)
  ELSE IF s[j] = "}" THEN [ok |-> TRUE, v |-> Obj(props), next |-> j + 1]
  ELSE ParseFail

\* the member value e parsed for key: the member is created with
\* CreateDataProperty, so a repeated key keeps its place and takes the last value
MemberParsed(s, key, e, props) ==
  IF ~e.ok THEN ParseFail
  ELSE MemberEnd(s, SkipClass(s, WhiteSpace, e.next), OrdinaryDefine(props, key, e.v))

\* after the member key, at index c (not white space): ':' and the value
MemberColon(s, key, c, props) ==
  IF c > Len(s) \/ s[c] # ":" THEN ParseFail
  ELSE MemberParsed(s, key, ParseValue(s, c + 1), props)

MemberKey(s, key, props) ==
  IF ~key.ok THEN ParseFail
  ELSE MemberColon(s, key.v.s, SkipClass(s, WhiteSpace, key.next), props)

\* the members of an object from index i (not white space, after '{' or ','),
\* up to '}'
ParseMembers(s, i, props) ==
  IF props = <<>> /\ i <= Len(s) /\ s[i] = "}"
  THEN [ok |-> TRUE, v |-> Obj(<<>>), next |-> i + 1]
  ELSE IF i > Len(s) \/ s[i] # "\"" THEN ParseFail
  ELSE MemberKey(s, ParseString(s, i + 1), props)

\* one value, then only white space
WholeText(s, r) ==
  IF r.ok /\ SkipClass(s, WhiteSpace, r.next) > Len(s)
  THEN [ok |-> TRUE, v |-> r.v]
  ELSE ParseFail

JSONParse(s) == WholeText(s, ParseValue(s, 1))

(***************************************************************************)
(* parseMcpContent.                                                        *)
(***************************************************************************)
\* ToBoolean
Truthy(v) ==
  CASE v.t \in {"undefined", "null", "NaN"} -> FALSE
    [] v.t = "boolean" -> v.b
    [] v.t = "number" -> ~(v.int = <<"0">> /\ v.frac = <<>>)
    [] v.t = "string" -> v.s # <<>>
    [] OTHER -> TRUE

\* v.k for a key k that no built-in prototype defines (name, parameters);
\* reading a property of null or undefined throws a TypeError
GetProperty(v, k) ==
  IF v.t = "object" /\ HasOwn(v.props, k) THEN GetOwn(v.props, k) ELSE Undefined

\* the for-of loop over the parsed descriptors: the calls pushed so far and the
\* error thrown out of the loop body, if any
RECURSIVE McpLoop(_, _)
McpLoop(functionCallData, tools) ==
  IF functionCallData = <<>> THEN [tools |-> tools, thrown |-> <<>>]
  ELSE LET call == Head(functionCallData)
       IN  IF call.t \in {"null", "undefined"}
           THEN [tools |-> tools, thrown |-> <<"TypeError">>]
           ELSE LET name == GetProperty(call, NAME_KEY)
                    parameters == GetProperty(call, PARAMETERS_KEY)
                IN  McpLoop(Tail(functionCallData),
                            IF Truthy(name) /\ Truthy(parameters)
                            THEN Append(tools, [name |-> name, arguments |-> parameters])
                            ELSE tools)

\* a try block that swallows the SyntaxError; the decoder does not use it
McpParsedSilent(parsed) ==
  IF ~parsed.ok THEN [tools |-> <<>>, thrown |-> <<>>]
  ELSE McpLoop(parsed.v.items, <<>>)

\* the try block after JSON.parse: the SyntaxError, or the loop
McpParsed(parsed) ==
  IF ~parsed.ok THEN [tools |-> <<>>, thrown |-> <<"SyntaxError">>]
  ELSE McpLoop(parsed.v.items, <<>>)

McpTry(body) == McpParsed(JSONParse(<<"[">> \o body \o <<"]">>))

\* a handler that rethrows; the decoder does not use it
McpCatchEscape(r) == [tools |-> r.tools, log |-> <<>>, escaped |-> r.thrown]

\* catch (error) { console.error(...) }: what was pushed, what is logged and
\* what escapes to the caller
McpCatch(r) == [tools |-> r.tools, log |-> r.thrown, escaped |-> <<>>]

McpNone == [tools |-> <<>>, log |-> <<>>, escaped |-> <<>>]

McpFunctionCall(functionCallMatch) ==
  IF ~functionCallMatch.matched THEN McpNone
  ELSE McpCatch(McpTry(functionCallMatch.g1))

McpRegion(mcpEnvMatch) ==
  IF ~mcpEnvMatch.matched THEN McpNone
  ELSE McpFunctionCall(MatchRegion(mcpEnvMatch.g1, FUNCTION_CALL_BEGIN, FUNCTION_CALL_END))

\* what parseMcpContent pushes, logs and lets escape
McpRun(c) == McpRegion(MatchRegion(c, MCP_ENV_OPEN, MCP_ENV_CLOSE))

(***************************************************************************)
(* parseComputerContent.                                                   *)
(***************************************************************************)
\* the reading /Action:\s*(\w*)\(([^)]*)\)/, which accepts an empty name; the
\* decoder does not use it
RECURSIVE MatchActionAnyName(_, _)
MatchActionAnyName(s, from) ==
  LET i == IndexOf(s, ACTION_MARK, from)
  IN  IF i = 0 THEN NoMatch
      ELSE LET a == SkipClass(s, WhiteSpace, i + Len(ACTION_MARK))
               b == SkipClass(s, WordChars, a)
               c == IndexOfClass(s, {")"}, b + 1)
           IN  IF b <= Len(s) /\ s[b] = "(" /\ c # 0
               THEN [matched |-> TRUE, g1 |-> SubSeq(s, a, b - 1), g2 |-> SubSeq(s, b + 1, c - 1)]
               ELSE MatchActionAnyName(s, i + 1)

\* s.match(/Action:\s*(\w+)\(([^)]*)\)/) searched from index from
RECURSIVE MatchAction(_, _)
MatchAction(s, from) ==
  LET i == IndexOf(s, ACTION_MARK, from)
  IN  IF i = 0 THEN NoMatch
      ELSE LET a == SkipClass(s, WhiteSpace, i + Len(ACTION_MARK))
               b == SkipClass(s, WordChars, a)
               c == IndexOfClass(s, {")"}, b + 1)
           IN  IF b > a /\ b <= Len(s) /\ s[b] = "(" /\ c # 0
               THEN [matched |-> TRUE, g1 |-> SubSeq(s, a, b - 1), g2 |-> SubSeq(s, b + 1, c - 1)]
               ELSE MatchAction(s, i + 1)

\* s.match(/point='<point>([^<]+)<\/point>'/) searched from index from
RECURSIVE MatchPoint(_, _)
MatchPoint(s, from) ==
  LET i == IndexOf(s, POINT_OPEN, from)
  IN  IF i = 0 THEN NoMatch
      ELSE LET e == IndexOfClass(s, {"<"}, i + Len(POINT_OPEN))
           IN  IF e > i + Len(POINT_OPEN) /\ StartsWithAt(s, POINT_CLOSE, e)
               THEN [matched |-> TRUE, g1 |-> SubSeq(s, i + Len(POINT_OPEN), e - 1),
                     start |-> i, end |-> e + Len(POINT_CLOSE) - 1]
               ELSE MatchPoint(s, i + 1)

\* Number(s) for a text of white space, signs, digits and '.', NaN for any other
\* text of the model (no exponent, radix prefix or Infinity occurs in it)
Number(s) ==
  LET t == Trim(s)
      signed == t # <<>> /\ t[1] \in {"+", "-"}
      u == IF signed THEN Tail(t) ELSE t
      b == SkipClass(u, Digits, 1)
      hasDot == b <= Len(u) /\ u[b] = "."
      c == IF hasDot THEN SkipClass(u, Digits, b + 1) ELSE b
      int == SubSeq(u, 1, b - 1)
      frac == IF hasDot THEN SubSeq(u, b + 1, c - 1) ELSE <<>>
  IN  IF t = <<>> THEN Num(FALSE, <<"0">>, <<>>)
      ELSE IF c <= Len(u) \/ (int = <<>> /\ frac = <<>>) THEN NaN
      ELSE Num(signed /\ t[1] = "-",
               IF int = <<>> THEN <<"0">> ELSE StripLeadingZeros(int),
               StripTrailingZeros(frac))

\* const [x, y] = pointMatch[1].split(' ').map(Number); parameters.point = { x, y }
PointValue(text) ==
  LET parts == Split(text, " ")
  IN  Obj(<<[k |-> <<"x">>, v |-> Number(parts[1])],
            [k |-> <<"y">>, v |-> IF Len(parts) >= 2 THEN Number(parts[2]) ELSE Undefined]>>)

\* value.replace(/^['"]|['"]$/g, '')
StripQuotes(value) ==
  LET a == IF value # <<>> /\ Head(value) \in Quotes THEN Tail(value) ELSE value
  IN  IF a # <<>> /\ a[Len(a)] \in Quotes THEN SubSeq(a, 1, Len(a) - 1) ELSE a

\* the body of the loop over otherParams
OtherParam(parameters, param) ==
  LET trimmed == Trim(param)
      parts == Split(trimmed, "=")
      key == Trim(parts[1])
      value == IF Len(parts) >= 2 THEN Trim(parts[2]) ELSE <<>>
  IN  IF trimmed # <<>> /\ key # <<>> /\ value # <<>>
      THEN PropertyAssign(parameters, key, Str(StripQuotes(value)))
      ELSE parameters

RECURSIVE OtherParams(_, _)
OtherParams(otherParams, parameters) ==
  IF otherParams = <<>> THEN parameters
  ELSE OtherParams(Tail(otherParams), OtherParam(parameters, Head(otherParams)))

\* the parameters object built from the text between the parentheses
ActionParameters(actionParams) ==
  LET pointMatch == MatchPoint(actionParams, 1)
      withPoint == IF pointMatch.matched
                   THEN OrdinaryDefine(<<>>, POINT_KEY, PointValue(pointMatch.g1))
                   ELSE <<>>
      rest == IF pointMatch.matched
              THEN SubSeq(actionParams, 1, pointMatch.start - 1)
                   \o SubSeq(actionParams, pointMatch.end + 1, Len(actionParams))
              ELSE actionParams
  IN  OtherParams(Split(rest, ","), withPoint)

\* the (name, arguments) pairs parseComputerContent pushes, before identifiers
ComputerTools(c) ==
  LET computerEnvMatch == MatchRegion(c, COMPUTER_ENV_OPEN, COMPUTER_ENV_CLOSE)
  IN  IF ~computerEnvMatch.matched THEN <<>>
      ELSE LET computerEnvContent == Trim(computerEnvMatch.g1)
               actionMatch == MatchAction(computerEnvContent, 1)
           IN  IF ~actionMatch.matched THEN <<>>
               ELSE <<[name |-> Str(actionMatch.g1),
                       arguments |-> Obj(ActionParameters(actionMatch.g2))]>>

(***************************************************************************)
(* The input texts of the model: each is put together from pieces of the   *)
(* grammar of its environment, well formed or not.                         *)
(***************************************************************************)
RECURSIVE Flatten(_)
Flatten(pieces) ==
  IF pieces = <<>> THEN <<>> ELSE Head(pieces) \o Flatten(Tail(pieces))

\* items joined by the separator sep
RECURSIVE Join(_, _)
Join(items, sep) ==
  IF items = <<>> THEN <<>>
  ELSE IF Len(items) = 1 THEN items[1]
  ELSE items[1] \o sep \o Join(Tail(items), sep)

\* the choices of at most max pieces out of n
Choices(n, max) == UNION {[1..k -> 1..n] : k \in 0..max}

Pick(pieces, choice) == [i \in 1..Len(choice) |-> pieces[choice[i]]]

\* texts of think and answer tags only: repeated, nested, unclosed, reversed
TagPieces ==
  <<THINK_OPEN, THINK_CLOSE, ANSWER_OPEN, ANSWER_CLOSE, <<" ","o","k","\n">>>>

TagInput(choice) == Flatten(Pick(TagPieces, choice))

\* what surrounds an environment region: nothing, no closing tag, no tags at
\* all, a think block before and an answer after, an answer block around it
Frames(open, close) ==
  << <<open, close>>,
     <<open, <<>>>>,
     <<<<>>, <<>>>>,
     <<THINK_OPEN \o <<" ","t"," ">> \o THINK_CLOSE \o open,
       close \o ANSWER_OPEN \o <<"a">> \o ANSWER_CLOSE>>,
     <<ANSWER_OPEN \o open, close \o ANSWER_CLOSE>> >>

Framed(frame, body) == frame[1] \o body \o frame[2]

CodePieces ==
  << FUNCTION_MARK \o <<"r","u","n",">">>,
     FUNCTION_MARK,
     <<">">>,
     PARAMETER_MARK \o <<"c","m","d",">">>,
     PARAMETER_MARK \o <<"2",">">>,
     PARAMETER_MARK \o <<"1",">">>,
     <<"l","s"," ","-","l","a">>,
     <<" ","a","<","b"," ">> >>

CodeBody(choice) == Flatten(Pick(CodePieces, choice))

\* what stands around the descriptors inside the mcp_env region
McpShapes ==
  << <<FUNCTION_CALL_BEGIN, FUNCTION_CALL_END>>,
     <<FUNCTION_CALL_BEGIN, <<"]">>>>,
     <<<<"[">>, FUNCTION_CALL_END>> >>

DescriptorItems ==
  << <<"{","\"","n","a","m","e","\"",":","\"","a","\"",",","\"","p","a","r","a","m","e","t","e","r","s","\"",":","{","\"","k","\"",":","\"","v","\"","}","}">>,
     <<"{","\"","n","a","m","e","\"",":","\"","b","\"",",","\"","p","a","r","a","m","e","t","e","r","s","\"",":","{","}","}">>,
     <<"{","\"","n","a","m","e","\"",":","\"","c","\"","}">>,
     <<"n","u","l","l">>,
     <<"{","\"","n","a","m","e","\"",":","\"","a","\"">>,
     <<"{","\"","n","a","m","e","\"",":","\"","\"",",","\"","p","a","r","a","m","e","t","e","r","s","\"",":","{","}","}">>,
     <<"{","\"","n","a","m","e","\"",":","\"","d","\"",",","\"","p","a","r","a","m","e","t","e","r","s","\"",":","\"","s","\"","}">>,
     <<"{","\"","n","a","m","e","\"",":","7",",","\"","p","a","r","a","m","e","t","e","r","s","\"",":","[","1","]","}">> >>

McpBody(shape, choice) ==
  Framed(McpShapes[shape], Join(Pick(DescriptorItems, choice), <<",">>))

\* what stands around the arguments inside the computer_env region
ComputerShapes ==
  << <<<<"A","c","t","i","o","n",":"," ","c","l","i","c","k","(">>, <<")">>>>,
     <<<<"A","c","t","i","o","n",":","t","y","p","e","(">>, <<")">>>>,
     <<<<"A","c","t","i","o","n",":"," ","(">>, <<")">>>>,
     <<<<"d","o","(">>, <<")">>>>,
     <<<<"A","c","t","i","o","n",":"," ","c","l","i","c","k","(">>, <<>>>> >>

ArgItems ==
  << <<"p","o","i","n","t","=","'","<","p","o","i","n","t",">","1","0"," ","2","0","<","/","p","o","i","n","t",">","'">>,
     <<"p","o","i","n","t","=","'","<","p","o","i","n","t",">","x","<","/","p","o","i","n","t",">","'">>,
     <<"t","e","x","t","=","'","h","e","l","l","o","'">>,
     <<"u","r","l","=","\"","a","=","b","\"">>,
     <<" ","n"," ","="," ","5"," ">>,
     <<"p","o","i","n","t","=","7">> >>

ComputerBody(shape, choice) ==
  Framed(ComputerShapes[shape], Join(Pick(ArgItems, choice), <<",">>))

InitTag ==
  \E choice \in Choices(Len(TagPieces), MaxTagPieces) : content = TagInput(choice)

InitCode ==
  LET frames == Frames(CODE_ENV_OPEN, CODE_ENV_CLOSE)
  IN  \/ \E choice \in Choices(Len(CodePieces), MaxCodePieces) :
           content = Framed(frames[1], CodeBody(choice))
      \/ \E f \in 2..Len(frames), choice \in Choices(Len(CodePieces), MaxCodePieces - 1) :
           content = Framed(frames[f], CodeBody(choice))

InitMcp ==
  LET frames == Frames(MCP_ENV_OPEN, MCP_ENV_CLOSE)
  IN  \/ \E shape \in 1..Len(McpShapes),
            choice \in Choices(Len(DescriptorItems), MaxDescriptors) :
           content = Framed(frames[1], McpBody(shape, choice))
      \/ \E f \in 2..Len(frames), shape \in 1..Len(McpShapes),
            choice \in Choices(Len(DescriptorItems), MaxDescriptors - 1) :
           content = Framed(frames[f], McpBody(shape, choice))

InitComputer ==
  LET frames == Frames(COMPUTER_ENV_OPEN, COMPUTER_ENV_CLOSE)
  IN  \/ \E shape \in 1..Len(ComputerShapes),
            choice \in Choices(Len(ArgItems), MaxArgs) :
           content = Framed(frames[1], ComputerBody(shape, choice))
      \/ \E f \in 2..Len(frames), shape \in 1..Len(ComputerShapes),
            choice \in Choices(Len(ArgItems), MaxArgs - 1) :
           content = Framed(frames[f], ComputerBody(shape, choice))

(***************************************************************************)
(* The state machine.  The caller hands one text to the decoder of the     *)
(* active agent mode; calls is the history of the decode calls made, each  *)
(* with what it returned or threw, and console the console.error calls.    *)
(***************************************************************************)
Call(decoder, outcome) == [decoder |-> decoder, outcome |-> outcome]

Init ==
  /\ InitTag \/ InitCode \/ InitMcp \/ InitComputer
  /\ calls = <<>>
  /\ console = <<>>
  /\ NoSelector
  /\ NoStream
  /\ NoServer

\* a decoder that keeps state between calls (such as the lastIndex of a shared
\* global regular expression) and finds nothing on a later call; the decoders do
\* not keep any
ReturnedOnce(decoder, think, answer, tools) ==
  {Call(decoder, Return(ParsedContent(think, answer,
                                      WithIds(IF calls = <<>> THEN tools ELSE <<>>, ids)))) :
     ids \in [1..Len(IF calls = <<>> THEN tools ELSE <<>>) -> ToolCallIds]}

\* the calls that return: each pushed tool call carries a generated identifier
Returned(decoder, think, answer, tools) ==
  {Call(decoder, Return(ParsedContent(think, answer, WithIds(tools, ids)))) :
     ids \in [1..Len(tools) -> ToolCallIds]}

parseCodeContent ==
  /\ calls = <<>>
  /\ \E call \in Returned("code", extractThinkContent(content),
                          extractAnswerContent(content), CodeTools(content)) :
       calls' = Append(calls, call)
  /\ UNCHANGED <<content, console, selectorVars, streamVars, serverVars>>

\* an mcp decoder that skips the think extraction; the decoder does not do so
McpOutcomesNoThink(think, answer, r) == Returned("mcp", <<>>, answer, r.tools)

McpOutcomes(think, answer, r) ==
  IF r.escaped # <<>> THEN {Call("mcp", Throw(r.escaped[1]))}
  ELSE Returned("mcp", think, answer, r.tools)

McpDecoded(r) ==
  /\ \E call \in McpOutcomes(extractThinkContent(content),
                             extractAnswerContent(content), r) :
       calls' = Append(calls, call)
  /\ console' = console \o r.log

parseMcpContent ==
  /\ calls = <<>>
  /\ McpDecoded(McpRun(content))
  /\ UNCHANGED <<content, selectorVars, streamVars, serverVars>>

parseComputerContent ==
  /\ calls = <<>>
  /\ \E call \in Returned("computer", extractThinkContent(content),
                          extractAnswerContent(content), ComputerTools(content)) :
       calls' = Append(calls, call)
  /\ UNCHANGED <<content, console, selectorVars, streamVars, serverVars>>

Next ==
  \/ parseCodeContent
  \/ parseMcpContent
  \/ parseComputerContent

Spec == Init /\ [][Next]_vars

(***************************************************************************)
(* Repeated calls.  The same text is handed to the decoders several times, *)
(* in any order: the decoders are plain functions of the module, so every  *)
(* call runs the same code on the same argument, and the calls of an       *)
(* event loop do not overlap.                                              *)
(***************************************************************************)
\* the number of decode calls made on one text
MaxCalls == 3

\* the texts decoded repeatedly: a code call between think and answer blocks, a
\* tool call, an unparsable payload, a null descriptor, a pointer action inside
\* an answer block, a pointer grammar mismatch, a code and a pointer region in
\* one text, tags only
CallTexts ==
  { Framed(Frames(CODE_ENV_OPEN, CODE_ENV_CLOSE)[4], CodeBody(<<1, 4, 7>>)),
    Framed(Frames(MCP_ENV_OPEN, MCP_ENV_CLOSE)[1], McpBody(1, <<1>>)),
    Framed(Frames(MCP_ENV_OPEN, MCP_ENV_CLOSE)[1], McpBody(1, <<5>>)),
    Framed(Frames(MCP_ENV_OPEN, MCP_ENV_CLOSE)[4], McpBody(1, <<4>>)),
    Framed(Frames(COMPUTER_ENV_OPEN, COMPUTER_ENV_CLOSE)[5], ComputerBody(1, <<1, 3>>)),
    Framed(Frames(COMPUTER_ENV_OPEN, COMPUTER_ENV_CLOSE)[1], ComputerBody(3, <<>>)),
    Framed(Frames(CODE_ENV_OPEN, CODE_ENV_CLOSE)[1], CodeBody(<<1, 5, 8, 6>>))
      \o Framed(Frames(COMPUTER_ENV_OPEN, COMPUTER_ENV_CLOSE)[1], ComputerBody(2, <<5>>)),
    TagInput(<<1, 5, 2, 3, 3, 5, 4, 4>>) }

InitCalls ==
  /\ content \in CallTexts
  /\ calls = <<>>
  /\ console = <<>>
  /\ NoSelector
  /\ NoStream
  /\ NoServer

CodeDecoded ==
  /\ \E call \in Returned("code", extractThinkContent(content),
                          extractAnswerContent(content), CodeTools(content)) :
       calls' = Append(calls, call)
  /\ UNCHANGED <<content, console, selectorVars, streamVars, serverVars>>

ComputerDecoded ==
  /\ \E call \in Returned("computer", extractThinkContent(content),
                          extractAnswerContent(content), ComputerTools(content)) :
       calls' = Append(calls, call)
  /\ UNCHANGED <<content, console, selectorVars, streamVars, serverVars>>

CallParseCodeContent ==
  /\ Len(calls) < MaxCalls
  /\ CodeDecoded

CallParseMcpContent ==
  /\ Len(calls) < MaxCalls
  /\ McpDecoded(McpRun(content))
  /\ UNCHANGED <<content, selectorVars, streamVars, serverVars>>

CallParseComputerContent ==
  /\ Len(calls) < MaxCalls
  /\ ComputerDecoded

NextCalls ==
  \/ CallParseCodeContent
  \/ CallParseMcpContent
  \/ CallParseComputerContent

SpecCalls == InitCalls /\ [][NextCalls]_vars

(***************************************************************************)
(* Repeated extraction.  An extractor is run on a text of think and answer *)
(* tags, and then again on the string it returned.                         *)
(***************************************************************************)
\* the number of extractions run in a row
MaxExtractions == 2

\* one run of an extractor: its argument and the string it returned
Extraction(extractor, input, output) ==
  [decoder |-> extractor, input |-> input, outcome |-> Return(output)]

InitExtract ==
  /\ InitTag
  /\ calls = <<>>
  /\ console = <<>>
  /\ NoSelector
  /\ NoStream
  /\ NoServer

RunExtractThinkContent ==
  /\ Len(calls) < MaxExtractions
  /\ calls' = Append(calls, Extraction("think", content, extractThinkContent(content)))
  /\ content' = extractThinkContent(content)
  /\ UNCHANGED <<console, selectorVars, streamVars, serverVars>>

RunExtractAnswerContent ==
  /\ Len(calls) < MaxExtractions
  /\ calls' = Append(calls, Extraction("answer", content, extractAnswerContent(content)))
  /\ content' = extractAnswerContent(content)
  /\ UNCHANGED <<console, selectorVars, streamVars, serverVars>>

NextExtract ==
  \/ RunExtractThinkContent
  \/ RunExtractAnswerContent

SpecExtract == InitExtract /\ [][NextExtract]_vars

(***************************************************************************)
(* Vocabulary of the properties, stated over the text itself.              *)
(***************************************************************************)
\* the least element of a non-empty set of integers
Min(S) == CHOOSE i \in S : \A j \in S : i <= j

\* the indices at which pat occurs in s
Occ(s, pat) == {i \in 1..(Len(s) - Len(pat) + 1) : StartsWithAt(s, pat, i)}

\* an opening tag with a closing tag after it
PairExists(s, open, close) ==
  \E i \in Occ(s, open) : \E j \in Occ(s, close) : j >= i + Len(open)

\* the text between the first opening tag and the first closing tag after it
FirstRegion(s, open, close) ==
  LET i0 == Min(Occ(s, open))
      j0 == Min({j \in Occ(s, close) : j >= i0 + Len(open)})
  IN  SubSeq(s, i0 + Len(open), j0 - 1)

\* t is s without its leading and trailing white space
IsTrimOf(t, s) ==
  IF \A k \in 1..Len(s) : s[k] \in WhiteSpace THEN t = <<>>
  ELSE \E a \in 1..Len(s) :
         /\ s[a] \notin WhiteSpace
         /\ \A k \in 1..(a - 1) : s[k] \in WhiteSpace
         /\ \E b \in a..Len(s) :
              /\ s[b] \notin WhiteSpace
              /\ \A k \in (b + 1)..Len(s) : s[k] \in WhiteSpace
              /\ t = SubSeq(s, a, b)

\* result is what the tag extraction contract asks for
ExtractsTag(result, s, open, close) ==
  IF PairExists(s, open, close)
  THEN IsTrimOf(result, FirstRegion(s, open, close))
  ELSE result = <<>>

\* the decode calls made so far that returned
ReturnedCalls == {n \in 1..Len(calls) : calls[n].outcome.kind = "return"}

CallsOf(decoder) == {n \in 1..Len(calls) : calls[n].decoder = decoder}

\* the tool calls a decode call returned
ToolsOf(call) ==
  IF call.outcome.kind = "return" /\ call.outcome.value.hasTools
  THEN call.outcome.value.tools
  ELSE <<>>

\* x is a string made of characters of the text s
IsStringOver(x, s) ==
  /\ DOMAIN x = 1..Len(x)
  /\ \A k \in 1..Len(x) : \E m \in 1..Len(s) : x[k] = s[m]

(***************************************************************************)
(* C1.  Every decode call returns a ParsedContent with string think and    *)
(* answer, and no exception escapes it, whatever the text: also when the   *)
(* environment region is present and malformed.                            *)
(***************************************************************************)
C1_NoExceptionEscapes ==
  \A n \in 1..Len(calls) :
    /\ calls[n].outcome.kind = "return"
    /\ IsStringOver(calls[n].outcome.value.think, content)
    /\ IsStringOver(calls[n].outcome.value.answer, content)

\* parseMcpContent returned on a payload with a null descriptor, whose property
\* read throws inside the try block
C1_Witness ==
  /\ CallsOf("mcp") # {}
  /\ console = <<"TypeError">>
  /\ \A n \in CallsOf("mcp") : calls[n].outcome.kind = "return"

(***************************************************************************)
(* The tool-environment payload as the text lays it out: the mcp_env       *)
(* region and, inside it, the array body between the sentinel pair         *)
(* <|FunctionCallBegin|>[ and ]<|FunctionCallEnd|>.                        *)
(***************************************************************************)
HasPayload(s) ==
  /\ PairExists(s, MCP_ENV_OPEN, MCP_ENV_CLOSE)
  /\ PairExists(FirstRegion(s, MCP_ENV_OPEN, MCP_ENV_CLOSE),
                FUNCTION_CALL_BEGIN, FUNCTION_CALL_END)

\* the result of parsing the payload as an array
Payload(s) ==
  JSONParse(<<"[">>
            \o FirstRegion(FirstRegion(s, MCP_ENV_OPEN, MCP_ENV_CLOSE),
                           FUNCTION_CALL_BEGIN, FUNCTION_CALL_END)
            \o <<"]">>)

\* a descriptor in which both name and parameters are present
McpWellFormed(d) ==
  /\ d.t = "object"
  /\ Truthy(GetProperty(d, NAME_KEY))
  /\ Truthy(GetProperty(d, PARAMETERS_KEY))

\* the invocation of the well-formed descriptor d, without its identifier
McpInvocation(d) ==
  [name |-> GetProperty(d, NAME_KEY),
   arguments |-> JSONStringify(GetProperty(d, PARAMETERS_KEY))]

(***************************************************************************)
(* C2.  When the payload parses as an array, parseMcpContent emits one     *)
(* invocation {name, arguments: parameters} for each descriptor in which   *)
(* both name and parameters are present, in array order, and nothing else: *)
(* a descriptor that lacks a field or is malformed is dropped alone, and   *)
(* the well-formed descriptors before and after it are still emitted.      *)
(***************************************************************************)
C2_PartialSuccess ==
  \A n \in CallsOf("mcp") :
    (HasPayload(content) /\ Payload(content).ok) =>
      LET expected == SelectSeq(Payload(content).v.items, McpWellFormed)
          tools == ToolsOf(calls[n])
      IN  /\ Len(tools) = Len(expected)
          /\ \A k \in 1..Len(expected) :
               /\ tools[k].function.name = McpInvocation(expected[k]).name
               /\ tools[k].function.arguments = McpInvocation(expected[k]).arguments

(***************************************************************************)
(* C3.  When the sentinel pair is found and the text between its brackets  *)
(* is not a parsable array body, parseMcpContent returns, with no action,  *)
(* after one diagnostic on the console: the SyntaxError does not reach the *)
(* caller.                                                                 *)
(***************************************************************************)
C3_UnparsablePayload ==
  \A n \in CallsOf("mcp") :
    (HasPayload(content) /\ ~Payload(content).ok) =>
      /\ calls[n].outcome.kind = "return"
      /\ ~calls[n].outcome.value.hasTools
      /\ console = <<"SyntaxError">>

\* an unparsable payload was decoded
C3_Witness ==
  /\ CallsOf("mcp") # {}
  /\ HasPayload(content)
  /\ ~Payload(content).ok
  /\ console # <<>>
  /\ \A n \in CallsOf("mcp") : ToolsOf(calls[n]) = <<>>

(***************************************************************************)
(* The code-environment region as the text lays it out.                    *)
(***************************************************************************)
\* the index of the first '>' of s at or after from, 0 when there is none
FirstClose(s, from) == IndexOfClass(s, {">"}, from)

\* the indices at which a marker MARK NAME '>' with a non-empty NAME starts
Markers(s, mark) ==
  {i \in Occ(s, mark) : FirstClose(s, i + Len(mark)) > i + Len(mark)}

\* the NAME of the marker that starts at index i
MarkerName(s, mark, i) ==
  SubSeq(s, i + Len(mark), FirstClose(s, i + Len(mark)) - 1)

HasCodeRegion(s) == PairExists(s, CODE_ENV_OPEN, CODE_ENV_CLOSE)

CodeRegion(s) == FirstRegion(s, CODE_ENV_OPEN, CODE_ENV_CLOSE)

\* the arguments mapping of a tool call, as its list of (key, value) properties
ArgumentsOf(tool) == tool.function.arguments.props

\* the text run of the parameter marker at index i: from after the marker up to
\* the next marker (complete or not) or the end of the region
MarkerRun(s, i) ==
  LET j == FirstClose(s, i + Len(PARAMETER_MARK))
      later == {m \in Occ(s, PARAMETER_MARK) \cup Occ(s, FUNCTION_MARK) : m > j}
      stop == IF later = {} THEN Len(s) + 1 ELSE Min(later)
  IN  SubSeq(s, j + 1, stop - 1)

\* the arguments args hold, under the KEY of every parameter marker of the region
\* s, the trimmed text run of the last marker with that KEY
ParametersStored(s, args) ==
  \A i \in Markers(s, PARAMETER_MARK) :
    (\A m \in Markers(s, PARAMETER_MARK) :
       m > i => MarkerName(s, PARAMETER_MARK, m) # MarkerName(s, PARAMETER_MARK, i)) =>
      /\ HasOwn(args, MarkerName(s, PARAMETER_MARK, i))
      /\ GetOwn(args, MarkerName(s, PARAMETER_MARK, i)) = Str(Trim(MarkerRun(s, i)))

(***************************************************************************)
(* C4.  For every parameter=KEY marker of a code_env region that has a     *)
(* function marker, the arguments hold under KEY the text run from after   *)
(* the marker up to the next marker or the end of the region, trimmed      *)
(* (for a repeated KEY, the run of its last marker).                       *)
(***************************************************************************)
C4_ParameterValue ==
  \A n \in CallsOf("code") :
    (HasCodeRegion(content) /\ Markers(CodeRegion(content), FUNCTION_MARK) # {}) =>
      /\ Len(ToolsOf(calls[n])) = 1
      /\ ParametersStored(CodeRegion(content), ArgumentsOf(ToolsOf(calls[n])[1]))

(***************************************************************************)
(* C5.  parseCodeContent emits exactly one invocation, named NAME, when    *)
(* the text has a code_env region with a function=NAME marker (the first   *)
(* one with a non-empty NAME), and none when the region is absent or has   *)
(* no function marker; it never emits more than one.                       *)
(***************************************************************************)
C5_OneInvocation ==
  \A n \in CallsOf("code") :
    /\ calls[n].outcome.kind = "return"
    /\ Len(ToolsOf(calls[n])) <= 1
    /\ IF HasCodeRegion(content) /\ Markers(CodeRegion(content), FUNCTION_MARK) # {}
       THEN /\ Len(ToolsOf(calls[n])) = 1
            /\ ToolsOf(calls[n])[1].function.name
               = Str(MarkerName(CodeRegion(content), FUNCTION_MARK,
                                Min(Markers(CodeRegion(content), FUNCTION_MARK))))
            /\ ToolsOf(calls[n])[1].function.name.s # <<>>
       ELSE ToolsOf(calls[n]) = <<>>

\* a region with a function marker and a parameter was decoded to one invocation
C5_Witness ==
  /\ CallsOf("code") # {}
  /\ HasCodeRegion(content)
  /\ Markers(CodeRegion(content), PARAMETER_MARK) # {}
  /\ \A n \in CallsOf("code") :
       /\ Len(ToolsOf(calls[n])) = 1
       /\ ToolsOf(calls[n])[1].function.name = Str(<<"r","u","n">>)
       /\ ArgumentsOf(ToolsOf(calls[n])[1]) # <<>>

(***************************************************************************)
(* The pointer-environment region as the text lays it out.                 *)
(***************************************************************************)
HasComputerRegion(s) == PairExists(s, COMPUTER_ENV_OPEN, COMPUTER_ENV_CLOSE)

\* the trimmed region
ComputerRegion(s) == Trim(FirstRegion(s, COMPUTER_ENV_OPEN, COMPUTER_ENV_CLOSE))

\* "Action:" at index i, white space up to a, NAME = s[a..b-1], '(' at b, ARGS
\* without ')' = s[b+1..c-1], ')' at c
IsActionAt(s, i, a, b, c) ==
  /\ \A k \in (i + Len(ACTION_MARK))..(a - 1) : s[k] \in WhiteSpace
  /\ b > a
  /\ \A k \in a..(b - 1) : s[k] \in WordChars
  /\ s[b] = "("
  /\ c > b
  /\ s[c] = ")"
  /\ \A k \in (b + 1)..(c - 1) : s[k] # ")"

\* the places <<i, a, b, c>> where s matches the grammar Action: NAME(ARGS)
ActionsIn(s) ==
  {p \in {<<i, a, b, c>> : i \in Occ(s, ACTION_MARK), a \in 1..Len(s),
                           b \in {k \in 1..Len(s) : s[k] = "("},
                           c \in {k \in 1..Len(s) : s[k] = ")"}} :
     /\ p[2] >= p[1] + Len(ACTION_MARK)
     /\ IsActionAt(s, p[1], p[2], p[3], p[4])}

\* the first place where s matches the grammar
FirstAction(s) ==
  CHOOSE p \in ActionsIn(s) : \A q \in ActionsIn(s) : p[1] <= q[1]

ActionName(s) == SubSeq(s, FirstAction(s)[2], FirstAction(s)[3] - 1)

ActionArgs(s) == SubSeq(s, FirstAction(s)[3] + 1, FirstAction(s)[4] - 1)

HasAction(s) == HasComputerRegion(s) /\ ActionsIn(ComputerRegion(s)) # {}

(***************************************************************************)
(* C6.  parseComputerContent emits exactly one invocation, named NAME,     *)
(* when the trimmed computer_env region matches Action: NAME(ARGS), and    *)
(* none when the region is absent or the grammar does not match; it never  *)
(* emits more than one.                                                    *)
(***************************************************************************)
C6_OneAction ==
  \A n \in CallsOf("computer") :
    /\ calls[n].outcome.kind = "return"
    /\ Len(ToolsOf(calls[n])) <= 1
    /\ IF HasAction(content)
       THEN /\ Len(ToolsOf(calls[n])) = 1
            /\ ToolsOf(calls[n])[1].function.name = Str(ActionName(ComputerRegion(content)))
       ELSE ToolsOf(calls[n]) = <<>>

\* a click action with arguments was decoded to one invocation
C6_Witness ==
  /\ CallsOf("computer") # {}
  /\ HasAction(content)
  /\ ActionArgs(ComputerRegion(content)) # <<>>
  /\ \A n \in CallsOf("computer") :
       /\ Len(ToolsOf(calls[n])) = 1
       /\ ToolsOf(calls[n])[1].function.name = Str(<<"c","l","i","c","k">>)

(***************************************************************************)
(* The arguments of a matched pointer action.                              *)
(***************************************************************************)
\* a decimal integer without sign and leading zeros
IsInteger(d) ==
  /\ d # <<>>
  /\ \A k \in 1..Len(d) : d[k] \in Digits
  /\ d[1] = "0" => Len(d) = 1

\* the index of the space of a text X ' ' Y with X and Y integers, as a set
PairSpaces(text) ==
  {sp \in 2..(Len(text) - 1) :
     /\ text[sp] = " "
     /\ IsInteger(SubSeq(text, 1, sp - 1))
     /\ IsInteger(SubSeq(text, sp + 1, Len(text)))}

\* the record {x: X, y: Y} of the text X ' ' Y
PointRecord(text) ==
  LET sp == CHOOSE sp \in PairSpaces(text) : TRUE
  IN  Obj(<<[k |-> <<"x">>, v |-> Num(FALSE, SubSeq(text, 1, sp - 1), <<>>)],
            [k |-> <<"y">>, v |-> Num(FALSE, SubSeq(text, sp + 1, Len(text)), <<>>)]>>)

\* the text between the inner point tags of the point encoding at index i of
\* args, and <<>> when no point encoding stands there
PointText(args, i) ==
  LET e == IndexOfClass(args, {"<"}, i + Len(POINT_OPEN))
  IN  IF e > 0 /\ StartsWithAt(args, POINT_CLOSE, e)
      THEN SubSeq(args, i + Len(POINT_OPEN), e - 1)
      ELSE <<>>

\* the arguments args hold under key point the record of every point encoding
\* with integer coordinates in the text text
PointStored(text, args) ==
  \A i \in Occ(text, POINT_OPEN) :
    PairSpaces(PointText(text, i)) # {} =>
      /\ HasOwn(args, POINT_KEY)
      /\ GetOwn(args, POINT_KEY) = PointRecord(PointText(text, i))

(***************************************************************************)
(* C7.  When ARGS of a matched pointer action contains                     *)
(* point='<point>X Y</point>' with X and Y integers separated by a space,  *)
(* the arguments hold under key point the record {x: X, y: Y}, whatever    *)
(* other arguments stand beside it.                                        *)
(***************************************************************************)
C7_PointDecoded ==
  \A n \in CallsOf("computer") :
    HasAction(content) =>
      /\ Len(ToolsOf(calls[n])) = 1
      /\ PointStored(ActionArgs(ComputerRegion(content)), ArgumentsOf(ToolsOf(calls[n])[1]))

\* the key=value reading of one comma-separated argument: the text before the
\* first '=' and the text after it, both trimmed
PairKey(item) ==
  Trim(SubSeq(Trim(item), 1, IndexOfClass(Trim(item), {"="}, 1) - 1))

PairValue(item) ==
  Trim(SubSeq(Trim(item), IndexOfClass(Trim(item), {"="}, 1) + 1, Len(Trim(item))))

\* a key=value argument with a key other than point and a value
IsPlainPair(item) ==
  /\ IndexOfClass(Trim(item), {"="}, 1) > 0
  /\ PairKey(item) # <<>>
  /\ PairKey(item) # POINT_KEY
  /\ PairValue(item) # <<>>

\* the value without its surrounding quotes
Unquoted(value) ==
  SubSeq(value,
         IF value[1] \in Quotes THEN 2 ELSE 1,
         IF Len(value) > 1 /\ value[Len(value)] \in Quotes THEN Len(value) - 1 ELSE Len(value))

\* the arguments args hold, under the key of every key=value item, the unquoted
\* value of the last item with that key
PlainArgumentsStored(items, args) ==
  \A m \in 1..Len(items) :
    ( /\ IsPlainPair(items[m])
      /\ \A l \in (m + 1)..Len(items) :
           IsPlainPair(items[l]) => PairKey(items[l]) # PairKey(items[m]) ) =>
      /\ HasOwn(args, PairKey(items[m]))
      /\ GetOwn(args, PairKey(items[m])) = Str(Unquoted(PairValue(items[m])))

(***************************************************************************)
(* C8.  For every comma-separated key=value argument of a matched pointer  *)
(* action other than the point encoding, the arguments hold under key the  *)
(* value string with its surrounding quotes stripped and nothing else      *)
(* removed (for a repeated key, the value of its last argument).           *)
(***************************************************************************)
C8_PlainArgument ==
  \A n \in CallsOf("computer") :
    HasAction(content) =>
      /\ Len(ToolsOf(calls[n])) = 1
      /\ PlainArgumentsStored(Split(ActionArgs(ComputerRegion(content)), ","),
                              ArgumentsOf(ToolsOf(calls[n])[1]))

(***************************************************************************)
(* C9.  think and answer are the trimmed text between the first opening    *)
(* tag and the first closing tag after it, and the empty string when there *)
(* is no such pair; with nested tags the text ends at the first closing    *)
(* tag.                                                                    *)
(***************************************************************************)
C9_TagExtraction ==
  \A n \in ReturnedCalls :
    /\ ExtractsTag(calls[n].outcome.value.think, content, THINK_OPEN, THINK_CLOSE)
    /\ ExtractsTag(calls[n].outcome.value.answer, content, ANSWER_OPEN, ANSWER_CLOSE)

\* nested answer tags: two opening tags, then two closing tags, and the answer
\* runs from the first opening tag to the first closing tag
C9_Witness ==
  /\ ReturnedCalls # {}
  /\ \E i1, i2 \in Occ(content, ANSWER_OPEN) : \E j1, j2 \in Occ(content, ANSWER_CLOSE) :
       /\ i1 < i2 /\ i2 < j1 /\ j1 < j2
       /\ i1 = Min(Occ(content, ANSWER_OPEN))
       /\ j1 = Min(Occ(content, ANSWER_CLOSE))
       /\ \A n \in ReturnedCalls :
            /\ calls[n].outcome.value.answer # <<>>
            /\ IsTrimOf(calls[n].outcome.value.answer,
                        SubSeq(content, i1 + Len(ANSWER_OPEN), j1 - 1))

(***************************************************************************)
(* C10.  Whichever decoder runs, and whether the environment region is     *)
(* present, absent or malformed, the think and answer it returns are the   *)
(* plain tag extraction results for the text, so the three decoders agree  *)
(* on them; a text without environment tags yields no action.              *)
(***************************************************************************)
NoEnvironmentTags(s) ==
  /\ Occ(s, CODE_ENV_OPEN) = {}
  /\ Occ(s, MCP_ENV_OPEN) = {}
  /\ Occ(s, COMPUTER_ENV_OPEN) = {}

C10_ThinkAnswerUnconditional ==
  \A n \in 1..Len(calls) :
    /\ calls[n].outcome.kind = "return"
    /\ calls[n].outcome.value.think = extractThinkContent(content)
    /\ calls[n].outcome.value.answer = extractAnswerContent(content)
    /\ NoEnvironmentTags(content) => ~calls[n].outcome.value.hasTools

\* a text with think and answer blocks and no environment tag was decoded
C10_Witness ==
  /\ calls # <<>>
  /\ NoEnvironmentTags(content)
  /\ \A n \in 1..Len(calls) :
       /\ calls[n].outcome.kind = "return"
       /\ calls[n].outcome.value.think # <<>>
       /\ calls[n].outcome.value.answer # <<>>
       /\ ~calls[n].outcome.value.hasTools

(***************************************************************************)
(* The cases in which a decoder produces no invocation: region absent,     *)
(* function marker absent, sentinel pair absent, unparsable payload,       *)
(* pointer grammar mismatch.                                               *)
(***************************************************************************)
NoInvocationCase(decoder, s) ==
  CASE decoder = "code" ->
         ~HasCodeRegion(s) \/ Markers(CodeRegion(s), FUNCTION_MARK) = {}
    [] decoder = "mcp" -> ~HasPayload(s) \/ ~Payload(s).ok
    [] decoder = "computer" -> ~HasAction(s)

\* the returned object has an own property tools
HasToolsField(call) == "tools" \in DOMAIN call.outcome.value

ContentOf(call) ==
  [think |-> call.outcome.value.think,
   answer |-> call.outcome.value.answer,
   hasTools |-> HasToolsField(call),
   pairs |-> [k \in 1..Len(ToolsOf(call)) |-> ToolsOf(call)[k].function]]

ReExtractions ==
  {n \in 2..Len(calls) : calls[n].decoder = "think" /\ calls[n - 1].decoder = "think"}

(***************************************************************************)
(* C14 as stated.  Reasoning extraction run on a string that is itself the *)
(* result of reasoning extraction returns that same string unchanged.      *)
(***************************************************************************)
C14_Idempotent ==
  \A n \in ReExtractions :
    /\ calls[n].input = calls[n - 1].outcome.value
    /\ calls[n].outcome.value = calls[n].input

(***************************************************************************)
(* C14, amended.  A string that is the result of reasoning extraction      *)
(* holds no complete think block, and reasoning extraction run on it       *)
(* returns the empty string: the same string only when that result was     *)
(* empty.                                                                  *)
(***************************************************************************)
C14_ReExtractionEmpty ==
  \A n \in ReExtractions :
    /\ calls[n].input = calls[n - 1].outcome.value
    /\ ~PairExists(calls[n].input, THINK_OPEN, THINK_CLOSE)
    /\ calls[n].outcome.value = <<>>

\* a non-empty reasoning string was extracted and the extractor was run on it
C14_Witness ==
  /\ ReExtractions # {}
  /\ \A n \in ReExtractions : calls[n].input # <<>> /\ calls[n].outcome.value = <<>>

(***************************************************************************)
(* C15.  Every invocation emitted by a decoder has the ToolInvocation      *)
(* shape: its name is a string and its arguments are a JSON object, never  *)
(* a scalar, an array or null.                                             *)
(***************************************************************************)
C15_InvocationShape ==
  \A n \in ReturnedCalls :
    \A k \in 1..Len(ToolsOf(calls[n])) :
      /\ ToolsOf(calls[n])[k].function.name.t = "string"
      /\ ToolsOf(calls[n])[k].function.arguments.t = "object"

\* the value v holds an integer under key k
HoldsInteger(v, k) ==
  /\ v.t = "object"
  /\ HasOwn(v.props, k)
  /\ GetOwn(v.props, k).t = "number"
  /\ GetOwn(v.props, k).frac = <<>>

\* text holds exactly one argument under key point, and it is a point encoding
HasOnePoint(text) ==
  /\ Cardinality(Occ(text, POINT_KEY \o <<"=">>)) = 1
  /\ \E i \in Occ(text, POINT_OPEN) : PointText(text, i) # <<>>

(***************************************************************************)
(* C16.  Whenever parseComputerContent decodes the point encoding of a     *)
(* matched action, the value stored under point is a record {x, y} whose x *)
(* and y are integers, whatever text stands between the inner point tags.  *)
(***************************************************************************)
C16_IntegerPoint ==
  \A n \in CallsOf("computer") :
    (HasAction(content) /\ HasOnePoint(ActionArgs(ComputerRegion(content)))) =>
      /\ Len(ToolsOf(calls[n])) = 1
      /\ HasOwn(ArgumentsOf(ToolsOf(calls[n])[1]), POINT_KEY)
      /\ HoldsInteger(GetOwn(ArgumentsOf(ToolsOf(calls[n])[1]), POINT_KEY), <<"x">>)
      /\ HoldsInteger(GetOwn(ArgumentsOf(ToolsOf(calls[n])[1]), POINT_KEY), <<"y">>)

\* the parameter markers of the region s whose KEY is seen for the first time
FirstSeen(s) ==
  {i \in Markers(s, PARAMETER_MARK) :
     \A m \in Markers(s, PARAMETER_MARK) :
       m < i => MarkerName(s, PARAMETER_MARK, m) # MarkerName(s, PARAMETER_MARK, i)}

\* the last marker of the region s with the KEY of the marker at index i
LastWithKey(s, i) ==
  CHOOSE l \in Markers(s, PARAMETER_MARK) :
    /\ MarkerName(s, PARAMETER_MARK, l) = MarkerName(s, PARAMETER_MARK, i)
    /\ \A m \in Markers(s, PARAMETER_MARK) :
         MarkerName(s, PARAMETER_MARK, m) = MarkerName(s, PARAMETER_MARK, i) => m <= l

\* the value the decoder captures after the marker at index i: the text up to the
\* next '<' or the end of the region
CapturedValue(s, i) ==
  SubSeq(s, FirstClose(s, i + Len(PARAMETER_MARK)) + 1,
         IF IndexOfClass(s, {"<"}, FirstClose(s, i + Len(PARAMETER_MARK)) + 1) = 0
         THEN Len(s)
         ELSE IndexOfClass(s, {"<"}, FirstClose(s, i + Len(PARAMETER_MARK)) + 1) - 1)

\* the keys of args stand in the order in which the region s shows them first,
\* each with the value of its last marker
InFirstSeenOrder(s, args) ==
  /\ Len(args) = Cardinality(FirstSeen(s))
  /\ \A i \in FirstSeen(s) :
       /\ args[Cardinality({m \in FirstSeen(s) : m <= i})].k
          = MarkerName(s, PARAMETER_MARK, i)
       /\ args[Cardinality({m \in FirstSeen(s) : m <= i})].v
          = Str(CapturedValue(s, LastWithKey(s, i)))

(***************************************************************************)
(* C18.  In parseCodeContent the keys of the emitted arguments stand in    *)
(* the order in which their parameter markers are first seen in the        *)
(* region, whatever the key strings are, and a KEY that occurs more than   *)
(* once keeps the value of its last occurrence.                            *)
(***************************************************************************)
C18_KeyOrder ==
  \A n \in CallsOf("code") :
    (HasCodeRegion(content) /\ Markers(CodeRegion(content), FUNCTION_MARK) # {}) =>
      /\ Len(ToolsOf(calls[n])) = 1
      /\ InFirstSeenOrder(CodeRegion(content), ArgumentsOf(ToolsOf(calls[n])[1]))


(***************************************************************************)
(* The model selector: the server's getAvailableModels handler, the        *)
(* client's ApiService and the ModelSelector component.                    *)
(***************************************************************************)
\* the largest number of providers the server is configured with
MaxProviders == 2
\* the largest number of handleModelChange calls in one behaviour
MaxChanges == 3

\* what server.getAvailableModels() returns: n providers with one model each
ProviderConfig(i) ==
  [name |-> "provider" \o ToString(i), models |-> <<"model" \o ToString(i)>>]

ServerConfigs == {[i \in 1..n |-> ProviderConfig(i)] : n \in 0..MaxProviders}

\* what server.getDefaultModelConfig() returns: nothing, or the first model
DefaultModelConfigs(available) ==
  {Undefined} \cup
  {[provider |-> available[i].name, modelId |-> available[i].models[1]] :
     i \in DOMAIN available \cap {1}}

SessionIds == {"", "session"}

HttpResponse(status, body) == [status |-> status, body |-> body]
\* fetch rejected: no connection, or the request timed out
NetworkFailure == [status |-> 0]
\* response.ok
Ok(response) == response.status \in 200..299

\* the handler of GET /models; an undefined defaultModel is left out of the
\* JSON body and read back as undefined
getAvailableModels(available, defaultModel, throws) ==
  IF throws THEN HttpResponse(500, [error |-> "Failed to get available models"])
  ELSE HttpResponse(200,
         [models |-> [i \in DOMAIN available |->
                        [provider |-> available[i].name,
                         models |-> available[i].models]],
          defaultModel |-> defaultModel,
          hasMultipleProviders |-> Len(available) > 0])

ModelsResponses(available) ==
  {getAvailableModels(available, defaultModel, throws) :
     defaultModel \in DefaultModelConfigs(available), throws \in BOOLEAN}
  \cup {NetworkFailure}

\* ApiService.getAvailableModels: the body, or the fallback on any failure
ApiService_getAvailableModels(response) ==
  IF Ok(response) THEN response.body
  ELSE [models |-> <<>>,
        defaultModel |-> [provider |-> "", modelId |-> ""],
        hasMultipleProviders |-> FALSE]

\* the responses to POST /sessions/model a request can get
UpdateResponses ==
  {HttpResponse(200, [success |-> TRUE]),
   HttpResponse(400, [error |-> "Invalid model configuration"]),
   HttpResponse(500, [error |-> "Failed to update session model"]),
   NetworkFailure}

\* ApiService.updateSessionModel: the success field, or false on any failure;
\* it never throws
ApiService_updateSessionModel(response) ==
  IF Ok(response) THEN response.body.success ELSE FALSE

\* the render guard: the component returns null
ReturnsNull(models) ==
  \/ models = Null
  \/ ~models.hasMultipleProviders
  \/ Len(models.models) = 0

allModelOptions(models) ==
  UNION {{[provider |-> models.models[i].provider,
           modelId |-> models.models[i].models[j]] :
            j \in DOMAIN models.models[i].models} : i \in DOMAIN models.models}

\* the dropdown elements mounted after a render: those of this render while the
\* dropdown is open; once it closes, AnimatePresence keeps the elements of the
\* last render that had them until the exit animation completes
Dropdown(models, open, loading) ==
  IF ReturnsNull(models) THEN Null
  ELSE IF open THEN [availableModels |-> models, isLoading |-> loading]
  ELSE closure

InitSelector ==
  /\ providers \in ServerConfigs
  /\ sessionId \in SessionIds
  /\ availableModels = Null
  /\ currentModel = Null
  /\ isOpen = FALSE
  /\ isLoading = FALSE
  /\ closure = Null
  /\ pending = <<>>
  /\ issued = <<>>
  /\ console = <<>>
  /\ NoDecoder
  /\ NoStream
  /\ NoServer

\* the effect run on mount, when the response to getAvailableModels arrives
loadModels ==
  /\ availableModels = Null
  /\ \E response \in ModelsResponses(providers) :
       LET models == ApiService_getAvailableModels(response)
       IN  /\ availableModels' = models
           /\ currentModel' = IF models.defaultModel # Undefined
                              THEN models.defaultModel ELSE currentModel
           /\ console' = IF Ok(response) THEN console
                         ELSE Append(console, "Error getting available models")
  /\ UNCHANGED <<providers, sessionId, isOpen, isLoading, closure, pending,
                 issued, content, calls, streamVars, serverVars>>

\* a click on the selector's button
ToggleOpen ==
  /\ ~ReturnsNull(availableModels)
  /\ ~isLoading
  /\ isOpen' = ~isOpen
  /\ closure' = Dropdown(availableModels, isOpen', isLoading)
  /\ UNCHANGED <<providers, sessionId, availableModels, currentModel,
                 isLoading, pending, issued, parserVars, streamVars, serverVars>>

\* a click on the backdrop of the dropdown
CloseBackdrop ==
  /\ closure # Null
  /\ isOpen
  /\ isOpen' = FALSE
  /\ UNCHANGED <<providers, sessionId, availableModels, currentModel,
                 isLoading, closure, pending, issued, parserVars, streamVars, serverVars>>

\* the exit animation of a closed dropdown completes: its elements unmount
ExitComplete ==
  /\ closure # Null
  /\ ~isOpen
  /\ closure' = Null
  /\ UNCHANGED <<providers, sessionId, availableModels, currentModel, isOpen,
                 isLoading, pending, issued, parserVars, streamVars, serverVars>>

HandlerCall(option, sent) ==
  [provider |-> option.provider, modelId |-> option.modelId,
   outstanding |-> Len(pending), sent |-> sent]

\* a click on a mounted option that is not disabled: handleModelChange up to its
\* await, with the isLoading its render captured
handleModelChange ==
  /\ Len(issued) < MaxChanges
  /\ closure # Null
  /\ ~closure.isLoading
  /\ \E option \in allModelOptions(closure.availableModels) :
       IF sessionId = "" \/ closure.isLoading
       THEN /\ issued' = Append(issued, HandlerCall(option, FALSE))
            /\ UNCHANGED <<isLoading, pending, closure>>
       ELSE /\ isLoading' = TRUE
            /\ pending' = Append(pending, option)
            /\ issued' = Append(issued, HandlerCall(option, TRUE))
            /\ closure' = Dropdown(availableModels, isOpen, TRUE)
  /\ UNCHANGED <<providers, sessionId, availableModels, currentModel, isOpen,
                 parserVars, streamVars, serverVars>>

\* updateSessionModel returns to a waiting handleModelChange, which runs to its
\* end
UpdateReturns ==
  /\ \E i \in DOMAIN pending, response \in UpdateResponses :
       LET success == ApiService_updateSessionModel(response)
       IN  /\ pending' = SubSeq(pending, 1, i - 1) \o SubSeq(pending, i + 1, Len(pending))
           /\ currentModel' = IF success THEN pending[i] ELSE currentModel
           /\ isOpen' = IF success THEN FALSE ELSE isOpen
           /\ isLoading' = FALSE
           /\ closure' = Dropdown(availableModels, isOpen', FALSE)
           /\ console' = IF success THEN console
                         ELSE Append(console, "Error updating session model")
  /\ UNCHANGED <<providers, sessionId, availableModels, issued, content, calls,
                 streamVars, serverVars>>

NextSelector ==
  \/ loadModels
  \/ ToggleOpen
  \/ CloseBackdrop
  \/ ExitComplete
  \/ handleModelChange
  \/ UpdateReturns

SpecSelector == InitSelector /\ [][NextSelector]_vars

\* the component renders the selector
SelectorRendered == ~ReturnsNull(availableModels)

(***************************************************************************)
(* C17: the selector is rendered only when more than one provider is       *)
(* configured on the server: with zero or exactly one configured provider  *)
(* the getAvailableModels response followed by the render guard yields no  *)
(* selector.                                                               *)
(***************************************************************************)
C17_MoreThanOneProvider ==
  SelectorRendered => Len(providers) > 1


(***************************************************************************)
(* ApiService.sendStreamingQuery.  A response body is a sequence of bytes: *)
(* the byte of an ASCII character is written as the character, and the one *)
(* character of two bytes, E_ACUTE, as LEAD_BYTE CONT_BYTE.                *)
(***************************************************************************)
\* the largest number of pieces in a response body
MaxBlocks == 3

DATA_PREFIX == <<"d","a","t","a",":"," ">>
TERMINATOR == <<"\n","\n">>
E_ACUTE == "U+00E9"
REPLACEMENT == "U+FFFD"
LEAD_BYTE == "C3"
CONT_BYTE == "A9"

\* the texts a body is made of: an event, an event with a two-byte character,
\* an unparsable payload, a block without the prefix, an event without its
\* terminator, a line end
StreamPieces ==
  <<DATA_PREFIX \o <<"1">> \o TERMINATOR,
    DATA_PREFIX \o <<"\"", E_ACUTE, "\"">> \o TERMINATOR,
    DATA_PREFIX \o <<"x">> \o TERMINATOR,
    <<"i","d",":","2">> \o TERMINATOR,
    DATA_PREFIX \o <<"3">>,
    <<"\n">>>>

StreamTexts == {Flatten(Pick(StreamPieces, choice)) :
                  choice \in Choices(Len(StreamPieces), MaxBlocks)}

\* the UTF-8 bytes of a text
Utf8(text) ==
  Flatten([i \in 1..Len(text) |->
             IF text[i] = E_ACUTE THEN <<LEAD_BYTE, CONT_BYTE>> ELSE <<text[i]>>])

\* the characters of a run of bytes that does not end inside a character: an
\* ill-formed byte decodes to the replacement character
DecodeBytes(b) ==
  Flatten([i \in 1..Len(b) |->
             IF b[i] = LEAD_BYTE
             THEN IF i < Len(b) /\ b[i + 1] = CONT_BYTE THEN <<>> ELSE <<REPLACEMENT>>
             ELSE IF b[i] = CONT_BYTE
             THEN IF i > 1 /\ b[i - 1] = LEAD_BYTE THEN <<E_ACUTE>> ELSE <<REPLACEMENT>>
             ELSE <<b[i]>>])

\* decoding every chunk on its own, which sendStreamingQuery does not do
DecodeWithoutStream(held, value) ==
  [text |-> DecodeBytes(value), held |-> <<>>]

\* decoder.decode(value, { stream: true }): the bytes of a character cut by the
\* end of the chunk are held for the next call
TextDecoder_decode(held, value) ==
  LET b == held \o value
      cut == b # <<>> /\ b[Len(b)] = LEAD_BYTE
  IN  [text |-> DecodeBytes(IF cut THEN SubSeq(b, 1, Len(b) - 1) ELSE b),
       held |-> IF cut THEN <<LEAD_BYTE>> ELSE <<>>]

\* one call of onEvent: its argument, and whether it threw
OnEvent(eventData, threw) == [data |-> eventData, threw |-> threw]

InitStream ==
  /\ stream \in {[text |-> text, bytes |-> Utf8(text)] : text \in StreamTexts}
  /\ reader = "none"
  /\ readTo = 0
  /\ textDecoder = <<>>
  /\ buffer = <<>>
  /\ events = <<>>
  /\ console = <<>>
  /\ NoDecoder
  /\ NoSelector
  /\ NoServer

\* the call up to the reading loop: fetch, response.ok, getReader
sendStreamingQuery ==
  /\ reader = "none"
  /\ \E ok \in BOOLEAN :
       /\ reader' = IF ok THEN "open" ELSE "thrown"
       /\ console' = IF ok THEN console
                     ELSE Append(console, "Error in streaming query")
  /\ UNCHANGED <<stream, readTo, textDecoder, buffer, events, content, calls,
                 selectorVars, serverVars>>

\* the buffer holds a whole block: the inner loop is running
BlockReady == IndexOf(buffer, TERMINATOR, 1) # 0

\* reader.read() gives a chunk of any length, which is decoded onto the buffer
ReadChunk ==
  /\ reader = "open"
  /\ ~BlockReady
  /\ \E n \in 1..(Len(stream.bytes) - readTo) :
       LET decoded == TextDecoder_decode(textDecoder,
                        SubSeq(stream.bytes, readTo + 1, readTo + n))
       IN  /\ readTo' = readTo + n
           /\ textDecoder' = decoded.held
           /\ buffer' = buffer \o decoded.text
  /\ UNCHANGED <<stream, reader, events, parserVars, selectorVars, serverVars>>

\* one turn of the inner loop: the first block leaves the buffer and, with the
\* prefix and a payload that parses, goes to onEvent, which may throw
ProcessEvent ==
  /\ reader = "open"
  /\ BlockReady
  /\ LET eventEndIndex == IndexOf(buffer, TERMINATOR, 1)
         eventString == SubSeq(buffer, 1, eventEndIndex - 1)
         parsed == JSONParse(SubSeq(eventString, Len(DATA_PREFIX) + 1,
                                    Len(eventString)))
     IN  /\ buffer' = SubSeq(buffer, eventEndIndex + Len(TERMINATOR), Len(buffer))
         /\ IF ~StartsWithAt(eventString, DATA_PREFIX, 1)
            THEN UNCHANGED <<events, console>>
            ELSE IF ~parsed.ok
            THEN /\ console' = Append(console, "Error parsing event data")
                 /\ UNCHANGED events
            ELSE \E threw \in BOOLEAN :
                   /\ events' = Append(events, OnEvent(parsed.v, threw))
                   /\ console' = IF threw
                                 THEN Append(console, "Error parsing event data")
                                 ELSE console
  /\ UNCHANGED <<stream, reader, readTo, textDecoder, content, calls, selectorVars, serverVars>>

\* reader.read() reports the end of the body: the loop ends and the call returns
ReadDone ==
  /\ reader = "open"
  /\ ~BlockReady
  /\ readTo = Len(stream.bytes)
  /\ reader' = "done"
  /\ UNCHANGED <<stream, readTo, textDecoder, buffer, events, parserVars,
                 selectorVars, serverVars>>

\* reader.read() rejects: the error is logged and thrown again
ReadFails ==
  /\ reader = "open"
  /\ ~BlockReady
  /\ reader' = "thrown"
  /\ console' = Append(console, "Error in streaming query")
  /\ UNCHANGED <<stream, readTo, textDecoder, buffer, events, content, calls,
                 selectorVars, serverVars>>

NextStream ==
  \/ sendStreamingQuery
  \/ ReadChunk
  \/ ProcessEvent
  \/ ReadDone
  \/ ReadFails

SpecStream == InitStream /\ [][NextStream]_vars

\* the blocks of a text, each ended by the first blank line after its start;
\* what follows the last blank line is no block
RECURSIVE BlocksFrom(_, _)
BlocksFrom(text, from) ==
  LET end == IndexOf(text, TERMINATOR, from)
  IN  IF end = 0 THEN <<>>
      ELSE <<SubSeq(text, from, end - 1)>> \o BlocksFrom(text, end + Len(TERMINATOR))

\* the payload of a block that has the prefix
PayloadOf(block) == SubSeq(block, Len(DATA_PREFIX) + 1, Len(block))

\* a complete event: a block with the prefix whose payload parses
IsCompleteEvent(block) ==
  /\ StartsWithAt(block, DATA_PREFIX, 1)
  /\ JSONParse(PayloadOf(block)).ok

\* the values of the complete events of a text, in the order of the text
CompleteEvents(text) ==
  LET complete == SelectSeq(BlocksFrom(text, 1), IsCompleteEvent)
  IN  [i \in 1..Len(complete) |-> JSONParse(PayloadOf(complete[i])).v]

\* the arguments of the calls of onEvent so far
Delivered == [i \in 1..Len(events) |-> events[i].data]

(***************************************************************************)
(* C19: however the body is cut into chunks, onEvent is called once for    *)
(* each complete event of the body, in stream order: at every moment the   *)
(* calls made are the first complete events of the body, and when the call *)
(* returns they are all of them.  Blocks with an unparsable payload or     *)
(* without the prefix, and the text after the last blank line, are never   *)
(* delivered and do not stop later events.                                 *)
(***************************************************************************)
C19_EventsDelivered ==
  LET expected == CompleteEvents(stream.text)
  IN  /\ Len(events) <= Len(expected)
      /\ Delivered = SubSeq(expected, 1, Len(events))
      /\ reader = "done" => Delivered = expected

\* the call returned after a skipped block, then a delivered event with a
\* two-byte character, then text without a terminator
C19_Witness ==
  /\ reader = "done"
  /\ Len(events) = 1
  /\ events[1].data = Str(<<E_ACUTE>>)
  /\ Len(BlocksFrom(stream.text, 1)) = 2
  /\ ~IsCompleteEvent(BlocksFrom(stream.text, 1)[1])
  /\ buffer # <<>>


\* the option of a handleModelChange call
Requested(call) == [provider |-> call.provider, modelId |-> call.modelId]

(***************************************************************************)
(* C20: in ModelSelector at most one updateSessionModel request is         *)
(* outstanding at any time, and a handleModelChange call made while one is *)
(* in flight sends none; currentModel, once it differs from the default    *)
(* set on mount, is the option of a request that was sent and has          *)
(* returned; and isLoading is false whenever no request is in flight.      *)
(***************************************************************************)
C20_OneOutstanding ==
  /\ Len(pending) <= 1
  /\ \A n \in 1..Len(issued) : issued[n].outstanding > 0 => ~issued[n].sent
  /\ (availableModels # Null /\ currentModel # Null
        /\ currentModel # availableModels.defaultModel)
       => \E n \in 1..Len(issued) :
             /\ issued[n].sent
             /\ currentModel = Requested(issued[n])
  /\ pending = <<>> => ~isLoading


(***************************************************************************)
(* The server's updateSessionModel handler.  A field of req.body that is   *)
(* absent or empty is written "": the handler tests both with !field.      *)
(***************************************************************************)
\* the largest number of requests in one behaviour
MaxRequests == 2

RequestBodies ==
  [sessionId : {"", "session", "unknown"},
   provider : {"", "provider1"},
   modelId : {"", "model1", "model2"}]

\* the metadata of the sessions in storage before any request
StoredSessions ==
  [s \in {"session"} |-> [modelConfig |-> Null, updatedAt |-> 0]]

\* !sessionId || !provider || !modelId is false
Present(body) ==
  body.sessionId # "" /\ body.provider # "" /\ body.modelId # ""

\* a handler that does not ask isModelConfigValid; the server does ask
HandlerStartUnchecked(body, valid, configured) ==
  IF ~Present(body) THEN [sent |-> <<400>>, awaiting |-> FALSE]
  ELSE IF configured THEN [sent |-> <<>>, awaiting |-> TRUE]
  ELSE [sent |-> <<400>>, awaiting |-> FALSE]

\* the handler up to its await: the responses sent, and whether it has called
\* storageProvider.updateSessionMetadata and waits for it; valid is the answer
\* of server.isModelConfigValid(provider, modelId)
HandlerStart(body, valid, configured) ==
  IF ~Present(body) THEN [sent |-> <<400>>, awaiting |-> FALSE]
  ELSE IF ~valid THEN [sent |-> <<400>>, awaiting |-> FALSE]
  ELSE IF configured THEN [sent |-> <<>>, awaiting |-> TRUE]
  ELSE [sent |-> <<400>>, awaiting |-> FALSE]

\* the second argument of updateSessionMetadata, with two readings of Date.now()
MetadataUpdate(body, configuredAt, updatedAt) ==
  [modelConfig |-> [provider |-> body.provider, modelId |-> body.modelId,
                    configuredAt |-> configuredAt],
   updatedAt |-> updatedAt]

InitServer ==
  /\ storage \in [configured : BOOLEAN, sessions : {StoredSessions}]
  /\ requests = <<>>
  /\ console = <<>>
  /\ NoDecoder
  /\ NoSelector
  /\ NoStream

\* a request arrives and the handler runs to a response or to its await; the
\* request keeps the storage as the handler found it and as it left it, and
\* Date.now() is read only on the way to the storage
updateSessionModel ==
  /\ Len(requests) < MaxRequests
  /\ \E body \in RequestBodies, valid \in BOOLEAN, configuredAt, updatedAt \in Clock :
       LET start == HandlerStart(body, valid, storage.configured)
       IN  /\ configuredAt <= updatedAt
           /\ start.awaiting \/ (configuredAt = updatedAt /\ updatedAt = 1000)
           /\ requests' = Append(requests,
                [body |-> body, valid |-> valid,
                 update |-> MetadataUpdate(body, configuredAt, updatedAt),
                 sent |-> start.sent, awaiting |-> start.awaiting,
                 before |-> storage, after |-> storage])
  /\ UNCHANGED <<storage, parserVars, selectorVars, streamVars>>

\* updateSessionMetadata settles for a waiting handler, which runs to its end:
\* the metadata of a stored session is updated and 200 is sent, with a log line
\* for an active session; a rejection is logged and answered with 500
UpdateSessionMetadataSettles ==
  /\ \E i \in DOMAIN requests, resolves \in BOOLEAN, active \in BOOLEAN :
       LET r == requests[i]
           id == r.body.sessionId
           done == resolves /\ id \in DOMAIN storage.sessions
       IN  /\ r.awaiting
           /\ done \/ ~active
           /\ storage' = IF done
                         THEN [storage EXCEPT !.sessions[id] = r.update]
                         ELSE storage
           /\ requests' = [requests EXCEPT ![i] =
                [r EXCEPT !.awaiting = FALSE,
                          !.sent = Append(r.sent, IF done THEN 200 ELSE 500),
                          !.before = storage,
                          !.after = storage']]
           /\ console' = IF ~done
                         THEN Append(console, "Failed to update session model")
                         ELSE IF active
                         THEN Append(console, "Session model updated")
                         ELSE console
  /\ UNCHANGED <<content, calls, selectorVars, streamVars>>

NextServer ==
  \/ updateSessionModel
  \/ UpdateSessionMetadataSettles

SpecServer == InitServer /\ [][NextServer]_vars

(***************************************************************************)
(* C21: the handler writes a session's modelConfig to storage only when    *)
(* sessionId, provider and modelId are all present and isModelConfigValid  *)
(* holds, and then it writes the requested provider and modelId; on a      *)
(* missing parameter, an invalid model or unconfigured storage it answers  *)
(* 400 and leaves the stored metadata as it was; and every request gets    *)
(* one response, none only while the handler waits for the storage.        *)
(***************************************************************************)
C21_ValidatedWrite ==
  \A i \in 1..Len(requests) :
    LET r == requests[i]
        id == r.body.sessionId
    IN  /\ r.after # r.before =>
             /\ Present(r.body) /\ r.valid
             /\ r.after.sessions[id].modelConfig.provider = r.body.provider
             /\ r.after.sessions[id].modelConfig.modelId = r.body.modelId
        /\ (~Present(r.body) \/ ~r.valid \/ ~r.before.configured) =>
             r.sent = <<400>> /\ r.after = r.before
        /\ Len(r.sent) = IF r.awaiting THEN 0 ELSE 1

\* one request was refused for its invalid model and another, whose handler
\* had waited for the storage, changed the metadata of its session
C21_Witness ==
  \E i, j \in 1..Len(requests) :
    /\ requests[i].sent = <<200>>
    /\ requests[i].after # requests[i].before
    /\ Present(requests[j].body) /\ ~requests[j].valid
    /\ requests[j].sent = <<400>>

=============================================================================
